---- MODULE Spec2Model ----
(***************************************************************************)
(* A model of monocle/db/queries.py: the parameter normaliser, the filter  *)
(* builder and the metric functions that query the event store.            *)
(*                                                                         *)
(* Python values are tagged records: None, int, bool, str (a tuple of its  *)
(* characters), tuple and list (a tuple of values).  A dict is a function  *)
(* from its keys to values; a key that is absent is absent from DOMAIN.    *)
(***************************************************************************)
EXTENDS Integers, Sequences, FiniteSets, TLC

VARIABLES pc, fn, params, resp, sent, outcome, result, locals

vars == <<pc, fn, params, resp, sent, outcome, result, locals>>

----------------------------------------------------------------------------
(* Python values *)

None == [t |-> "None"]

PyInt(n) == [t |-> "int", v |-> n]

Bool(b) == [t |-> "bool", v |-> b]

Str(cs) == [t |-> "str", v |-> cs]

Tuple(xs) == [t |-> "tuple", v |-> xs]

List(xs) == [t |-> "list", v |-> xs]

EmptyDict == [k \in {} |-> None]

(* bool(x): the truth value Python's `if x:` tests *)
Truthy(x) ==
  CASE x.t = "None" -> FALSE
    [] x.t = "int" -> x.v # 0
    [] x.t = "bool" -> x.v
    [] OTHER -> Len(x.v) > 0

(* dict.get(key, default) *)
GetD(d, k, default) == IF k \in DOMAIN d THEN d[k] ELSE default

(* dict.get(key) *)
Get(d, k) == GetD(d, k, None)

(* d[key] = value *)
SetItem(d, k, x) == [j \in DOMAIN d \cup {k} |-> IF j = k THEN x ELSE d[j]]

(* list(s) for a str s: the list of its characters *)
list(s) == List([i \in 1..Len(s.v) |-> Str(<<s.v[i]>>)])

(* the members of a tuple or list *)
Elems(x) == {x.v[i] : i \in 1..Len(x.v)}

----------------------------------------------------------------------------
(* Event type names and other string literals of the source *)

ChangeT == Str(<<"C","h","a","n","g","e">>)

ChangeCreatedEvent ==
  Str(<<"C","h","a","n","g","e","C","r","e","a","t","e","d","E","v","e","n","t">>)

ChangeReviewedEvent ==
  Str(<<"C","h","a","n","g","e","R","e","v","i","e","w","e","d","E","v","e","n","t">>)

ChangeCommentedEvent ==
  Str(<<"C","h","a","n","g","e","C","o","m","m","e","n","t","e","d","E","v","e","n","t">>)

ChangeAbandonedEvent ==
  Str(<<"C","h","a","n","g","e","A","b","a","n","d","o","n","e","d","E","v","e","n","t">>)

ChangeMergedEvent ==
  Str(<<"C","h","a","n","g","e","M","e","r","g","e","d","E","v","e","n","t">>)

MERGED == Str(<<"M","E","R","G","E","D">>)

Interval3h == Str(<<"3","h">>)

----------------------------------------------------------------------------
(* Filter builder and parameter normaliser *)

(* d with d[k] = x executed when cond holds *)
SetIf(cond, d, k, x) == IF cond THEN SetItem(d, k, x) ELSE d

(* qfilter.append(x) executed when cond holds *)
AppendIf(cond, q, x) == IF cond THEN Append(q, x) ELSE q

generate_filter(repository_fullname, p) ==
  LET gte == Get(p, "gte")
      lte == Get(p, "lte")
      etype0 == Get(p, "etype")
      author == Get(p, "author")
      approval == Get(p, "approval")
      state == Get(p, "state")
      ec_same_date == Get(p, "ec_same_date")
      etype == IF etype0.t = "str" THEN list(etype0) ELSE etype0
      fmt == [format |-> "epoch_millis"]
      created_at == SetIf(Truthy(lte), SetIf(Truthy(gte), fmt, "gte", gte), "lte", lte)
      on_cc_gte == IF Truthy(ec_same_date) THEN gte ELSE Get(p, "on_cc_gte")
      on_cc_lte == IF Truthy(ec_same_date) THEN lte ELSE Get(p, "on_cc_lte")
      on_created_at ==
        SetIf(Truthy(on_cc_lte) \/ Truthy(ec_same_date),
              SetIf(Truthy(on_cc_gte) \/ Truthy(ec_same_date), fmt, "gte", on_cc_gte),
              "lte", on_cc_lte)
      q0 == << [regexp |-> [repository_fullname |-> [value |-> repository_fullname]]],
               [range |-> [created_at |-> created_at]],
               [range |-> [on_created_at |-> on_created_at]] >>
      q1 == AppendIf(Truthy(etype), q0, [terms |-> [type |-> etype]])
      q2 == AppendIf(Truthy(author), q1, [term |-> [author |-> author]])
      q3 == AppendIf(Truthy(state), q2, [term |-> [state |-> state]])
  IN  AppendIf(Truthy(approval), q3, [term |-> [approval |-> approval]])

(* params['exclude_authors'] raises KeyError on a record that lacks the key *)
generate_must_not(p, exclude_change) ==
  IF "exclude_authors" \notin DOMAIN p
  THEN [ok |-> FALSE, exc |-> "KeyError"]
  ELSE LET m0 == AppendIf(Truthy(p["exclude_authors"]), <<>>,
                          [terms |-> [author |-> p["exclude_authors"]]])
       IN  [ok |-> TRUE,
            val |-> AppendIf(exclude_change, m0, [term |-> [type |-> ChangeT]])]

set_params_defaults(p) ==
  [gte |-> Get(p, "gte"),
   lte |-> Get(p, "lte"),
   on_cc_gte |-> Get(p, "on_cc_gte"),
   on_cc_lte |-> Get(p, "on_cc_lte"),
   ec_same_date |-> Get(p, "ec_same_date"),
   etype |-> Get(p, "etype"),
   author |-> Get(p, "author"),
   interval |-> GetD(p, "interval", Interval3h),
   size |-> GetD(p, "size", PyInt(10)),
   exclude_authors |-> GetD(p, "exclude_authors", List(<<>>)),
   approval |-> Get(p, "approval")]

(* the "query" part of a request body; every caller passes normalised params *)
Query(repository_fullname, p, exclude_change) ==
  [bool |-> [filter |-> generate_filter(repository_fullname, p),
             must_not |-> generate_must_not(p, exclude_change).val]]

----------------------------------------------------------------------------
(* Inputs *)

MaxTime == 1

Missing == [t |-> "missing"]

(* a sparse parameter record: the keys whose value is not Missing *)
Sparse(f) == [k \in {j \in DOMAIN f : f[j] # Missing} |-> f[k]]

Repo == Str(<<"r",".","*">>)

AuthorA == Str(<<"a">>)

AuthorB == Str(<<"b">>)

AuthorAB == Str(<<"a","b">>)

Approved == Str(<<"+","2">>)

TimeVals == {PyInt(n) : n \in 0..MaxTime}

(* parameter records handed to the filter builder *)
FilterParams ==
  {Sparse(f) : f \in
    [gte : {Missing} \cup TimeVals,
     lte : {Missing} \cup TimeVals,
     on_cc_gte : {Missing} \cup TimeVals,
     on_cc_lte : {Missing} \cup TimeVals,
     ec_same_date : {Missing, Bool(TRUE), Bool(FALSE)},
     etype : {Missing, ChangeReviewedEvent, Tuple(<<ChangeCommentedEvent>>)},
     author : {Missing, AuthorA},
     state : {Missing, MERGED},
     approval : {Missing, Approved},
     exclude_authors : {Missing, List(<<AuthorB>>)}]}

----------------------------------------------------------------------------
(* State *)

Init ==
  /\ pc = "idle"
  /\ fn = "none"
  /\ params = EmptyDict
  /\ resp = <<>>
  /\ sent = <<>>
  /\ outcome = "none"
  /\ result = None
  /\ locals = EmptyDict

(* an invocation of f on p ends: r is its value or the exception it raises *)
Finish(f, p, r, s, rs, l) ==
  /\ pc' = "done"
  /\ fn' = f
  /\ params' = p
  /\ outcome' = IF r.ok THEN "returned" ELSE "raised"
  /\ result' = IF r.ok THEN r.val ELSE r.exc
  /\ sent' = s
  /\ resp' = rs
  /\ locals' = l

Ok(x) == [ok |-> TRUE, val |-> x]

----------------------------------------------------------------------------
(* The filter builder and the normaliser applied to bounded inputs *)

GenerateFilter ==
  /\ pc = "idle"
  /\ \E p \in FilterParams :
    Finish("generate_filter", p, Ok(generate_filter(Repo, p)), <<>>, <<>>, EmptyDict)

GenerateMustNot ==
  /\ pc = "idle"
  /\ \E p \in FilterParams, exclude_change \in BOOLEAN :
    Finish("generate_must_not", p, generate_must_not(p, exclude_change), <<>>, <<>>,
           [exclude_change |-> exclude_change])

SetParamsDefaults ==
  /\ pc = "idle"
  /\ \E p \in FilterParams :
    Finish("set_params_defaults", p, Ok(set_params_defaults(p)), <<>>, <<>>, EmptyDict)

NextFilter == GenerateFilter \/ GenerateMustNot \/ SetParamsDefaults

SpecFilter == Init /\ [][NextFilter]_vars

----------------------------------------------------------------------------
(* Claims about the filter builder *)

CreatedAtRange(q) == q[2].range.created_at

OnCreatedAtRange(q) == q[3].range.on_created_at

(* the gte/lte entries of a range predicate *)
Bounds(d) == [k \in DOMAIN d \ {"format"} |-> d[k]]

SameDate == Truthy(Get(params, "ec_same_date"))

(* C2: a range predicate built by generate_filter holds a gte (lte) key only
   if a lower (upper) bound was supplied for that range, and never maps a key
   to None; with ec_same_date the bounds of on_created_at are gte and lte. *)
C2_AbsentBoundOmitted ==
  (fn = "generate_filter" /\ outcome = "returned") =>
    LET ca == CreatedAtRange(result)
        oc == OnCreatedAtRange(result)
        lo == IF SameDate THEN Get(params, "gte") ELSE Get(params, "on_cc_gte")
        hi == IF SameDate THEN Get(params, "lte") ELSE Get(params, "on_cc_lte")
    IN  /\ "gte" \in DOMAIN ca => Get(params, "gte") # None
        /\ "lte" \in DOMAIN ca => Get(params, "lte") # None
        /\ "gte" \in DOMAIN oc => lo # None
        /\ "lte" \in DOMAIN oc => hi # None
        /\ \A k \in DOMAIN Bounds(oc) : oc[k] # None

(* C3: with ec_same_date true, the bounds of the on_created_at range equal
   the bounds of the created_at range, whatever on_cc_gte and on_cc_lte are. *)
C3_SameDateBoundsEqual ==
  (fn = "generate_filter" /\ outcome = "returned" /\ SameDate) =>
    Bounds(OnCreatedAtRange(result)) = Bounds(CreatedAtRange(result))

----------------------------------------------------------------------------
(* Sequences, ordering and statistics *)

RECURSIVE Sum(_)
Sum(s) == IF Len(s) = 0 THEN 0 ELSE s[1] + Sum(Tail(s))

(* sorted(s, key=..., reverse=True) where key[i] is the key of s[i]; Python's
   sort is stable, also when reversed *)
SortedDesc(s, key) ==
  LET n == Len(s)
      rank(i) == Cardinality({j \in 1..n : key[j] > key[i] \/ (key[j] = key[i] /\ j < i)})
  IN  [r \in 1..n |-> s[CHOOSE i \in 1..n : rank(i) = r - 1]]

(* code points of the characters that occur in compared strings *)
Ord(c) ==
  CASE c = "+" -> 43
    [] c = "-" -> 45
    [] c = "/" -> 47
    [] c = "1" -> 49
    [] c = "2" -> 50
    [] c = "a" -> 97
    [] c = "b" -> 98
    [] c = "r" -> 114

(* x < y on str values: lexicographic by code point *)
StrLess(x, y) ==
  LET a == x.v
      b == y.v
  IN  \E i \in 1..Len(b) :
        /\ i - 1 <= Len(a)
        /\ \A j \in 1..(i - 1) : a[j] = b[j]
        /\ (i > Len(a) \/ Ord(a[i]) < Ord(b[i]))

(* the members of a set of str values in ascending order *)
Ascending(S) ==
  [r \in 1..Cardinality(S) |->
     CHOOSE k \in S : Cardinality({j \in S : StrLess(j, k)}) = r - 1]

(* statistics.mean / avg as the exact quotient num/den (0 for no data where
   the caller guards the empty series) *)
Mean(series) ==
  IF Len(series) = 0 THEN [num |-> 0, den |-> 1]
  ELSE [num |-> Sum(series), den |-> Len(series)]

(* statistics.median(sorted(series)) as a quotient *)
Median(series) ==
  LET n == Len(series)
      asc == SortedDesc(series, [i \in 1..n |-> 0 - series[i]])
  IN  IF n = 0 THEN [num |-> 0, den |-> 1]
      ELSE IF n % 2 = 1 THEN [num |-> asc[(n + 1) \div 2], den |-> 1]
      ELSE [num |-> asc[n \div 2] + asc[n \div 2 + 1], den |-> 2]

----------------------------------------------------------------------------
(* The event store: a call fails or answers *)

Fail == [ok |-> FALSE]

Answer(res) == [ok |-> TRUE, res |-> res]

Request(op, body) == [op |-> op, body |-> body]

(* run_query: a failed search yields the empty list *)
run_query(r) == IF r.ok THEN r.res ELSE List(<<>>)

(* data is a Python list, on which data['aggregations'] raises TypeError *)
IsList(data) == "t" \in DOMAIN data

IsInt(x) == "t" \in DOMAIN x /\ x.t = "int"

----------------------------------------------------------------------------
(* Metric functions.  Each takes the caller's arguments and the answers of
   the event store, and yields [ok, val | exc, sent]: the value returned or
   the exception raised, and the requests issued. *)

Returns(x, s) == [ok |-> TRUE, val |-> x, sent |-> s]

Raises(e, s) == [ok |-> FALSE, exc |-> e, sent |-> s]

count_events(repository_fullname, p0, r) ==
  LET p == set_params_defaults(p0)
      body == [query |-> Query(repository_fullname, p, TRUE)]
  IN  Returns(IF r.ok THEN r.res["count"] ELSE EmptyDict, <<Request("count", body)>>)

count_authors(repository_fullname, p0, r) ==
  LET p == set_params_defaults(p0)
      body == [aggs |-> [agg1 |-> [cardinality |->
                 [field |-> "author", precision_threshold |-> 3000]]],
               size |-> 0,
               query |-> Query(repository_fullname, p, TRUE)]
      data == run_query(r)
      s == <<Request("search", body)>>
  IN  IF IsList(data) THEN Raises("TypeError", s)
      ELSE Returns(data.aggregations.agg1.value, s)

events_histo(repository_fullname, p0, r) ==
  LET p == set_params_defaults(p0)
      body == [aggs |-> [agg1 |-> [date_histogram |->
                           [field |-> "created_at", interval |-> p["interval"]]],
                         avg_count |-> [avg_bucket |-> [buckets_path |-> "agg1>_count"]]],
               size |-> 0,
               query |-> Query(repository_fullname, p, TRUE)]
      data == run_query(r)
      s == <<Request("search", body)>>
  IN  IF IsList(data) THEN Raises("TypeError", s)
      ELSE Returns(<<data.aggregations.agg1.buckets,
                     data.aggregations.avg_count.value>>, s)

(* p is already normalised by the caller *)
events_top(repository_fullname, field, p, r) ==
  LET body == [aggs |-> [agg1 |-> [terms |->
                 [field |-> field, size |-> p["size"], order |-> ("_count" :> "desc")]]],
               size |-> 0,
               query |-> Query(repository_fullname, p, TRUE)]
      data == run_query(r)
      s == <<Request("search", body)>>
  IN  IF IsList(data) THEN Raises("TypeError", s)
      ELSE LET buckets == data.aggregations.agg1.buckets
               count_series == [i \in 1..Len(buckets) |-> buckets[i].doc_count]
           IN  Returns([buckets |-> buckets,
                        count_avg |-> Mean(count_series),
                        count_median |-> Median(count_series)], s)

events_top_authors(repository_fullname, p0, r) ==
  events_top(repository_fullname, "author", set_params_defaults(p0), r)

changes_top_approval(repository_fullname, p0, r) ==
  events_top(repository_fullname, "approval",
             SetItem(set_params_defaults(p0), "etype", ChangeReviewedEvent), r)

changes_top_commented(repository_fullname, p0, r) ==
  events_top(repository_fullname, "repository_fullname_and_number",
             SetItem(set_params_defaults(p0), "etype", ChangeCommentedEvent), r)

changes_top_reviewed(repository_fullname, p0, r) ==
  events_top(repository_fullname, "repository_fullname_and_number",
             SetItem(set_params_defaults(p0), "etype", ChangeReviewedEvent), r)

authors_top_reviewed(repository_fullname, p0, r) ==
  events_top(repository_fullname, "on_author",
             SetItem(set_params_defaults(p0), "etype", ChangeReviewedEvent), r)

authors_top_commented(repository_fullname, p0, r) ==
  events_top(repository_fullname, "on_author",
             SetItem(set_params_defaults(p0), "etype", ChangeCommentedEvent), r)

(* the pair in the order met, left unsorted *)
PeersIdUnsorted(author, key) == <<author, key>>

(* tuple(sorted((author, key))) *)
PeersId(author, key) == IF StrLess(key, author) THEN <<key, author>> ELSE <<author, key>>

(* peers_strength after the buckets of one author's on_author ranking: a dict
   kept as the sequence of its (peers_id, strength) items in insertion order *)
RECURSIVE PeersAccumulate(_, _, _)
PeersAccumulate(ps, author, buckets) ==
  IF Len(buckets) = 0 THEN ps
  ELSE LET b == Head(buckets)
           id == PeersId(author, b.key)
           at == {i \in 1..Len(ps) : ps[i][1] = id}
           ps1 == IF b.key = author THEN ps
                  ELSE IF at = {} THEN Append(ps, <<id, b.doc_count>>)
                  ELSE [i \in 1..Len(ps) |->
                          IF i \in at THEN <<id, ps[i][2] + b.doc_count>> ELSE ps[i]]
       IN  PeersAccumulate(ps1, author, Tail(buckets))

(* the loop over authors from position i; rs[a] answers the query with
   author = a *)
RECURSIVE PeersLoop(_, _, _, _, _, _, _)
PeersLoop(repository_fullname, p, authors, i, rs, ps, s) ==
  IF i > Len(authors)
  THEN Returns(SortedDesc(ps, [j \in 1..Len(ps) |-> ps[j][2]]), s)
  ELSE LET pa == SetItem(p, "author", authors[i])
           top == events_top(repository_fullname, "on_author", pa, rs[authors[i]])
       IN  IF ~top.ok THEN Raises(top.exc, s \o top.sent)
           ELSE PeersLoop(repository_fullname, pa, authors, i + 1, rs,
                          PeersAccumulate(ps, authors[i], top.val.buckets),
                          s \o top.sent)

ReviewedAndCommented == Tuple(<<ChangeReviewedEvent, ChangeCommentedEvent>>)

(* the authors the first query of peers_exchange_strength yields *)
PeersAuthors(r) ==
  IF r.ok THEN [i \in 1..Len(r.res.aggregations.agg1.buckets) |->
                  r.res.aggregations.agg1.buckets[i].key]
  ELSE <<>>

peers_exchange_strength(repository_fullname, p0, r, rs) ==
  LET p == SetItem(set_params_defaults(p0), "etype", ReviewedAndCommented)
      top == events_top(repository_fullname, "author", p, r)
  IN  IF ~top.ok THEN Raises(top.exc, top.sent)
      ELSE PeersLoop(repository_fullname, p, PeersAuthors(r), 1, rs, <<>>, top.sent)

MergedChanges(p0) ==
  SetItem(SetItem(set_params_defaults(p0), "etype", Tuple(<<ChangeT>>)), "state", MERGED)

DurationRanges ==
  << [to |-> 24 * 3600],
     [from |-> 24 * 3600 + 1, to |-> 7 * 24 * 3600],
     [from |-> 7 * 24 * 3600 + 1, to |-> 31 * 24 * 3600],
     [from |-> 31 * 24 * 3600 + 1] >>

change_merged_count_by_duration(repository_fullname, p0, r) ==
  LET p == MergedChanges(p0)
      body == [aggs |-> [agg1 |-> [range |->
                 [field |-> "duration", ranges |-> DurationRanges, keyed |-> TRUE]]],
               size |-> 0,
               query |-> Query(repository_fullname, p, FALSE)]
      data == run_query(r)
      s == <<Request("search", body)>>
  IN  IF IsList(data) THEN Raises("TypeError", s)
      ELSE Returns(data.aggregations.agg1.buckets, s)

pr_merged_avg_duration(repository_fullname, p0, r) ==
  LET p == MergedChanges(p0)
      body == [aggs |-> [agg1 |-> [avg |-> [field |-> "duration"]]],
               size |-> 0,
               docvalue_fields |-> <<[field |-> "created_at", format |-> "date_time"]>>,
               query |-> Query(repository_fullname, p, FALSE)]
      data == run_query(r)
      s == <<Request("search", body)>>
  IN  IF IsList(data) THEN Raises("TypeError", s)
      ELSE Returns(data.aggregations.agg1, s)

CounterTypes ==
  <<ChangeCreatedEvent, ChangeReviewedEvent, ChangeCommentedEvent,
    ChangeAbandonedEvent, ChangeMergedEvent>>

(* the loop of changes_events_counters from position i; rs[i].c answers the
   count and rs[i].a the cardinality query of the i-th event type *)
RECURSIVE CountersLoop(_, _, _, _, _, _)
CountersLoop(repository_fullname, p, i, rs, ret, s) ==
  IF i > Len(CounterTypes) THEN Returns(ret, s)
  ELSE LET pe == SetItem(p, "etype", Tuple(<<CounterTypes[i]>>))
           events_count == count_events(repository_fullname, pe, rs[i].c)
           authors_count == count_authors(repository_fullname, pe, rs[i].a)
           s1 == s \o events_count.sent \o authors_count.sent
       IN  IF ~authors_count.ok THEN Raises(authors_count.exc, s1)
           ELSE CountersLoop(repository_fullname, pe, i + 1, rs,
                  SetItem(ret, CounterTypes[i],
                          [events_count |-> events_count.val,
                           authors_count |-> authors_count.val]),
                  s1)

changes_events_counters(repository_fullname, p0, rs) ==
  CountersLoop(repository_fullname, set_params_defaults(p0), 1, rs, EmptyDict, <<>>)

(* round(x / y * 100, 1) on two counts, in tenths of a percent, to the
   nearest tenth (ties to even); x / y raises on a dict operand and on y = 0 *)
RatioPercent(x, y) ==
  IF ~IsInt(x) \/ ~IsInt(y) THEN [ok |-> FALSE, exc |-> "TypeError"]
  ELSE IF y.v = 0 THEN [ok |-> FALSE, exc |-> "ZeroDivisionError"]
  ELSE LET n == x.v * 1000
           q == n \div y.v
           twice == 2 * (n % y.v)
           up == twice > y.v \/ (twice = y.v /\ q % 2 = 1)
       IN  [ok |-> TRUE, val |-> [t |-> "float", tenths |-> IF up THEN q + 1 ELSE q]]

RatioTypes == <<ChangeCreatedEvent, ChangeMergedEvent, ChangeAbandonedEvent>>

changes_closed_ratios(repository_fullname, p0, rs) ==
  LET p == set_params_defaults(p0)
      call(i) == count_events(repository_fullname,
                              SetItem(p, "etype", Tuple(<<RatioTypes[i]>>)), rs[i])
      created == call(1).val
      merged == call(2).val
      abandoned == call(3).val
      s == call(1).sent \o call(2).sent \o call(3).sent
      mc == RatioPercent(merged, created)
      ac == RatioPercent(abandoned, merged)
  IN  IF ~mc.ok THEN Raises(mc.exc, s)
      ELSE IF ~ac.ok THEN Raises(ac.exc, s)
      ELSE Returns([k \in {"merged/created_ratio", "abandoned/created_ratio"} |->
                      IF k = "merged/created_ratio" THEN mc.val ELSE ac.val], s)

----------------------------------------------------------------------------
(* First event on changes.  A timestamp string "%Y-%m-%dT%H:%M:%SZ" is the
   record of its date (days since the epoch day) and its time of day (seconds);
   a datetime is its number of seconds since the epoch; a timedelta is kept as
   its total seconds, of which Python's .days and .seconds are quotient and
   remainder by one day. *)

Day == 24 * 3600

Timestamp(d, s) == [date |-> d, time |-> s]

DateTime(s) == [t |-> "datetime", v |-> s]

(* datetime.strptime(ts, "%Y-%m-%dT%H:%M:%SZ") *)
strptime(ts) == DateTime(ts.date * Day + ts.time)

(* a - b on datetimes *)
TimeDelta(a, b) == [t |-> "timedelta", v |-> a.v - b.v]

(* timedelta.seconds: the seconds within the day, 0 <= seconds < 86400 *)
Seconds(td) == td.v % Day

scan_events(repository_fullname, p, r) ==
  LET body == ("_source" :> GetD(p, "field", List(<<>>)))
              @@ [query |-> Query(repository_fullname, p, TRUE)]
      s == <<Request("scan", body)>>
  IN  IF r.ok THEN Returns(r.res, s) ELSE Raises("ElasticsearchException", s)

(* sorted(_events, key=lambda k: k['repository_fullname_and_number']) *)
SortedByChange(events) ==
  LET n == Len(events)
      key(i) == events[i].repository_fullname_and_number
      rank(i) == Cardinality({j \in 1..n : StrLess(key(j), key(i))
                                           \/ (key(j) = key(i) /\ j < i)})
  IN  [r \in 1..n |-> events[CHOOSE i \in 1..n : rank(i) = r - 1]]

(* the inner loop over the events of one change *)
RECURSIVE GroupFold(_, _)
GroupFold(g, events) ==
  IF Len(events) = 0 THEN g
  ELSE LET event == Head(events)
           change_created_at ==
             IF g.change_created_at = None THEN strptime(event.on_created_at)
             ELSE g.change_created_at
           event_created_at == strptime(event.created_at)
           g1 == IF event_created_at.v < g.first_event_created_at.v
                 THEN [change_created_at |-> change_created_at,
                       first_event_created_at |-> event_created_at,
                       first_event_author |-> event.author,
                       delta |-> TimeDelta(event_created_at, change_created_at)]
                 ELSE [g EXCEPT !.change_created_at = change_created_at]
       IN  GroupFold(g1, Tail(events))

(* groupby over the sorted events: one group per run of equal keys, kept as
   the sequence of (pr, data) items of the groups dict *)
Groups(events, now) ==
  LET sorted == SortedByChange(events)
      keys == Ascending({events[i].repository_fullname_and_number : i \in 1..Len(events)})
      ofPr(pr) == LET Test(e) == e.repository_fullname_and_number = pr
                  IN  SelectSeq(sorted, Test)
      init == [change_created_at |-> None,
               first_event_created_at |-> now,
               first_event_author |-> None,
               delta |-> None]
  IN  [i \in 1..Len(keys) |-> [pr |-> keys[i], data |-> GroupFold(init, ofPr(keys[i]))]]

(* ret['top_authors'] before sorting: (author, count) in insertion order *)
RECURSIVE TopAuthors(_, _)
TopAuthors(acc, groups) ==
  IF Len(groups) = 0 THEN acc
  ELSE LET a == Head(groups).data.first_event_author
           at == {i \in 1..Len(acc) : acc[i][1] = a}
           acc1 == IF at = {} THEN Append(acc, <<a, 1>>)
                   ELSE [i \in 1..Len(acc) |->
                           IF i \in at THEN <<a, acc[i][2] + 1>> ELSE acc[i]]
       IN  TopAuthors(acc1, Tail(groups))

TopAuthorsKept == 10

(* lines 451-463: the mean of the deltas and the ten most frequent authors *)
FirstEventStats(groups, s) ==
  LET n == Len(groups)
      counted == TopAuthors(<<>>, groups)
      ranked == SortedDesc(counted, [i \in 1..Len(counted) |-> counted[i][2]])
      keep == IF Len(ranked) < TopAuthorsKept THEN Len(ranked) ELSE TopAuthorsKept
  IN  IF \E i \in 1..n : groups[i].data.delta = None
      THEN Raises("AttributeError", s)
      ELSE IF n = 0 THEN Raises("ZeroDivisionError", s)
      ELSE Returns([first_event_delay_avg |->
                      Sum([i \in 1..n |-> Seconds(groups[i].data.delta)]) \div n,
                    top_authors |-> SubSeq(ranked, 1, keep)], s)

WithGroups(out, groups) == out @@ [groups |-> groups]

FirstEventOf(scan, now) ==
  IF ~scan.ok THEN WithGroups(Raises(scan.exc, scan.sent), <<>>)
  ELSE WithGroups(FirstEventStats(Groups(scan.val, now), scan.sent),
                  Groups(scan.val, now))

first_event_on_changes(repository_fullname, p0, r, now) ==
  FirstEventOf(scan_events(repository_fullname, set_params_defaults(p0), r), now)

first_comment_on_changes(repository_fullname, p0, r, now) ==
  first_event_on_changes(repository_fullname,
    SetItem(set_params_defaults(p0), "etype", Tuple(<<ChangeCommentedEvent>>)), r, now)

first_review_on_changes(repository_fullname, p0, r, now) ==
  first_event_on_changes(repository_fullname,
    SetItem(set_params_defaults(p0), "etype", Tuple(<<ChangeReviewedEvent>>)), r, now)

----------------------------------------------------------------------------
(* Answers of the event store, bounded *)

MaxCount == 2

MaxBuckets == 2

MaxEvents == 2

(* parameter records the metric functions are called with *)
MetricParams ==
  {Sparse(f) : f \in [author : {Missing, AuthorA},
                      state : {Missing, MERGED},
                      approval : {Missing, Approved}]}

(* peers_exchange_strength is called with size = 2: two authors are queried,
   each for its two strongest partners among three *)
PeersParams == {[size |-> PyInt(2)]}

Authors == {AuthorA, AuthorAB, AuthorB}

Approvals == {Approved, Str(<<"-","1">>)}

Changes == {Str(<<"r","/","1">>), Str(<<"r","/","2">>)}

CountVals == {0, 10, 40, 100}

CountAnswers(V) == {Fail} \cup {Answer([count |-> PyInt(n)]) : n \in V}

Aggregations(agg1) == Answer([aggregations |-> [agg1 |-> agg1]])

CardinalityAnswers ==
  {Fail} \cup {Aggregations([value |-> PyInt(n)]) : n \in 0..MaxCount}

(* a terms ranking: at most size keys, by descending count, equal counts by
   ascending key *)
Ranking(m) ==
  LET asc == Ascending(DOMAIN m)
      n == Len(asc)
  IN  SortedDesc([i \in 1..n |-> [key |-> asc[i], doc_count |-> m[asc[i]]]],
                 [i \in 1..n |-> m[asc[i]]])

TermsAnswers(K, size) ==
  {Fail} \cup
  {Aggregations([buckets |-> Ranking(m)]) :
     m \in UNION {[S -> 1..MaxCount] : S \in {T \in SUBSET K : Cardinality(T) <= size}}}

HistoBuckets ==
  UNION {{[i \in 1..n |-> [key |-> i, doc_count |-> c[i]]] : c \in [1..n -> 1..MaxCount]} :
           n \in 0..MaxBuckets}

HistoAnswers ==
  {Fail} \cup
  {Answer([aggregations |->
     [agg1 |-> [buckets |-> b],
      avg_count |-> [value |-> IF Len(b) = 0 THEN None
                               ELSE Mean([i \in 1..Len(b) |-> b[i].doc_count])]]]) :
     b \in HistoBuckets}

(* durations of the merged changes in the store *)
DurationVals == {0, Day, Day + 1, 7 * Day, 7 * Day + 1, 31 * Day, 31 * Day + 1}

(* Elasticsearch's range aggregation: a range includes its from value and
   excludes its to value *)
InRange(r, d) ==
  /\ "from" \in DOMAIN r => d >= r.from
  /\ "to" \in DOMAIN r => d < r.to

RangeBuckets(ranges, D) ==
  [i \in 1..Len(ranges) |-> [doc_count |-> Cardinality({d \in D : InRange(ranges[i], d)})]]

(* Elasticsearch's avg aggregation: null over no documents *)
AvgValue(D) ==
  IF D = {} THEN None
  ELSE [num |-> Sum([i \in 1..Cardinality(D) |->
                       CHOOSE d \in D : Cardinality({e \in D : e < d}) = i - 1]),
        den |-> Cardinality(D)]

ChangeCreatedAt == Timestamp(0, 0)

EventTimes == {Timestamp(0, 3600), Timestamp(0, 7200), Timestamp(1, 3600)}

EventDocs ==
  [repository_fullname_and_number : Changes,
   created_at : EventTimes,
   on_created_at : {ChangeCreatedAt},
   author : {AuthorA, AuthorB}]

ScanAnswers ==
  {Fail} \cup {Answer(es) : es \in UNION {[1..n -> EventDocs] : n \in 0..MaxEvents}}

(* values of datetime.now(): after every event, and before the latest *)
NowVals == {DateTime(2 * Day), DateTime(Day)}

----------------------------------------------------------------------------
(* A caller invokes a metric function; the function runs against the answers
   of the event store and returns or raises.  One action per public function. *)

MetricFunctions ==
  {"count_events", "count_authors", "events_histo", "events_top_authors",
   "changes_top_approval", "changes_top_commented", "changes_top_reviewed",
   "authors_top_reviewed", "authors_top_commented", "peers_exchange_strength",
   "change_merged_count_by_duration", "pr_merged_avg_duration",
   "changes_events_counters", "changes_closed_ratios",
   "first_comment_on_changes", "first_review_on_changes"}

Invoke(F, P) ==
  /\ pc = "idle"
  /\ \E f \in F, p \in P :
       /\ pc' = "called"
       /\ fn' = f
       /\ params' = p
       /\ UNCHANGED <<resp, sent, outcome, result, locals>>

InvokeMetric == Invoke(MetricFunctions, MetricParams)

Called(f) == pc = "called" /\ fn = f

Return(out, rs, l) == Finish(fn, params, out, out.sent, rs, l)

SizeOf(p) == set_params_defaults(p)["size"].v

CountEvents ==
  /\ Called("count_events")
  /\ \E r \in CountAnswers(CountVals) :
       Return(count_events(Repo, params, r), <<r>>, EmptyDict)

CountAuthors ==
  /\ Called("count_authors")
  /\ \E r \in CardinalityAnswers :
       Return(count_authors(Repo, params, r), <<r>>, EmptyDict)

EventsHisto ==
  /\ Called("events_histo")
  /\ \E r \in HistoAnswers :
       Return(events_histo(Repo, params, r), <<r>>, EmptyDict)

EventsTopAuthors ==
  /\ Called("events_top_authors")
  /\ \E r \in TermsAnswers(Authors, SizeOf(params)) :
       Return(events_top_authors(Repo, params, r), <<r>>, EmptyDict)

ChangesTopApproval ==
  /\ Called("changes_top_approval")
  /\ \E r \in TermsAnswers(Approvals, SizeOf(params)) :
       Return(changes_top_approval(Repo, params, r), <<r>>, EmptyDict)

ChangesTopCommented ==
  /\ Called("changes_top_commented")
  /\ \E r \in TermsAnswers(Changes, SizeOf(params)) :
       Return(changes_top_commented(Repo, params, r), <<r>>, EmptyDict)

ChangesTopReviewed ==
  /\ Called("changes_top_reviewed")
  /\ \E r \in TermsAnswers(Changes, SizeOf(params)) :
       Return(changes_top_reviewed(Repo, params, r), <<r>>, EmptyDict)

AuthorsTopReviewed ==
  /\ Called("authors_top_reviewed")
  /\ \E r \in TermsAnswers(Authors, SizeOf(params)) :
       Return(authors_top_reviewed(Repo, params, r), <<r>>, EmptyDict)

AuthorsTopCommented ==
  /\ Called("authors_top_commented")
  /\ \E r \in TermsAnswers(Authors, SizeOf(params)) :
       Return(authors_top_commented(Repo, params, r), <<r>>, EmptyDict)

(* K: the authors the store knows.  resp is the answer to the first query
   followed by the answers the loop consumed, in order; locals.authors are the
   authors of the first answer *)
PeersCall(K) ==
  /\ Called("peers_exchange_strength")
  /\ \E r \in TermsAnswers(K, SizeOf(params)) :
       LET authors == PeersAuthors(r)
       IN  \E rs \in [{authors[i] : i \in 1..Len(authors)} ->
                        TermsAnswers(K, SizeOf(params))] :
             LET out == peers_exchange_strength(Repo, params, r, rs)
             IN  Return(out, <<r>> \o [i \in 1..(Len(out.sent) - 1) |-> rs[authors[i]]],
                        [authors |-> authors])

PeersExchangeStrength == PeersCall({AuthorA, AuthorB})

(* D: the durations of the merged changes that match the query *)
ChangeMergedCountByDuration ==
  /\ Called("change_merged_count_by_duration")
  /\ \E D \in SUBSET DurationVals, failed \in BOOLEAN :
       LET r == IF failed THEN Fail
                ELSE Aggregations([buckets |-> RangeBuckets(DurationRanges, D)])
       IN  Return(change_merged_count_by_duration(Repo, params, r), <<r>>,
                  [durations |-> D])

PrMergedAvgDuration ==
  /\ Called("pr_merged_avg_duration")
  /\ \E D \in SUBSET DurationVals, failed \in BOOLEAN :
       LET r == IF failed THEN Fail ELSE Aggregations([value |-> AvgValue(D)])
       IN  Return(pr_merged_avg_duration(Repo, params, r), <<r>>, [durations |-> D])

(* the answers to one count and one cardinality query of changes_events_counters *)
CounterAnswers ==
  [c : CountAnswers({MaxCount}), a : {Fail, Aggregations([value |-> PyInt(MaxCount)])}]

ChangesEventsCounters ==
  /\ Called("changes_events_counters")
  /\ \E rs \in [1..Len(CounterTypes) -> CounterAnswers] :
       LET out == changes_events_counters(Repo, params, rs)
       IN  Return(out, [i \in 1..(Len(out.sent) \div 2) |-> rs[i]], EmptyDict)

ChangesClosedRatios ==
  /\ Called("changes_closed_ratios")
  /\ \E rs \in [1..Len(RatioTypes) -> CountAnswers(CountVals)] :
       Return(changes_closed_ratios(Repo, params, rs), rs, EmptyDict)

FirstCommentOnChanges ==
  /\ Called("first_comment_on_changes")
  /\ \E r \in ScanAnswers, now \in NowVals :
       LET out == first_comment_on_changes(Repo, params, r, now)
       IN  Return(out, <<r>>, [now |-> now, groups |-> out.groups])

FirstReviewOnChanges ==
  /\ Called("first_review_on_changes")
  /\ \E r \in ScanAnswers, now \in NowVals :
       LET out == first_review_on_changes(Repo, params, r, now)
       IN  Return(out, <<r>>, [now |-> now, groups |-> out.groups])

Next ==
  \/ InvokeMetric
  \/ CountEvents
  \/ CountAuthors
  \/ EventsHisto
  \/ EventsTopAuthors
  \/ ChangesTopApproval
  \/ ChangesTopCommented
  \/ ChangesTopReviewed
  \/ AuthorsTopReviewed
  \/ AuthorsTopCommented
  \/ PeersExchangeStrength
  \/ ChangeMergedCountByDuration
  \/ PrMergedAvgDuration
  \/ ChangesEventsCounters
  \/ ChangesClosedRatios
  \/ FirstCommentOnChanges
  \/ FirstReviewOnChanges

Spec == Init /\ [][Next]_vars

(* peers_exchange_strength alone, over three authors *)
InvokePeers == Invoke({"peers_exchange_strength"}, PeersParams)

PeersExchangeStrengthSized == PeersCall(Authors)

NextPeers == InvokePeers \/ PeersExchangeStrengthSized

SpecPeers == Init /\ [][NextPeers]_vars

----------------------------------------------------------------------------
(* Properties of the metric functions *)

Done(f) == pc = "done" /\ fn = f

(* the filter of the i-th request issued *)
FilterSent(i) == sent[i].body.query.bool.filter

(* C1: every invocation of a public metric function, whatever backend calls
   succeed or fail, ends by returning a value and never by raising *)
C1_NeverRaises == pc = "done" => outcome = "returned"

SingleTypeFunctions ==
  [changes_top_approval |-> ChangeReviewedEvent,
   changes_top_reviewed |-> ChangeReviewedEvent,
   authors_top_reviewed |-> ChangeReviewedEvent,
   changes_top_commented |-> ChangeCommentedEvent,
   authors_top_commented |-> ChangeCommentedEvent]

(* the event types a filter's type-inclusion predicate selects *)
TypesSelected(q) ==
  UNION {Elems(q[i].terms.type) : i \in {j \in 1..Len(q) : "terms" \in DOMAIN q[j]}}

(* C4: a top function that passes etype as one event type name issues a filter
   whose type-inclusion predicate selects exactly that one event type *)
C4_SingleTypeSelected ==
  (pc = "done" /\ fn \in DOMAIN SingleTypeFunctions) =>
    TypesSelected(FilterSent(1)) = {SingleTypeFunctions[fn]}

(* the bucket the duration d is meant to fall in: up to one day, up to seven
   days, up to thirty-one days, beyond *)
BucketOf(d) ==
  IF d <= Day THEN 1 ELSE IF d <= 7 * Day THEN 2 ELSE IF d <= 31 * Day THEN 3 ELSE 4

(* C5: every merged change is counted in exactly one of the four buckets, a
   duration of 86400 in the first, 86401 and 604800 in the second, 2678400 in
   the third *)
C5_EveryDurationCounted ==
  (Done("change_merged_count_by_duration") /\ outcome = "returned") =>
    \A i \in 1..Len(DurationRanges) :
      result[i].doc_count = Cardinality({d \in locals.durations : BucketOf(d) = i})

(* the buckets of the answer to the query issued for the author a, when a was
   queried and answered *)
RankingOf(a) ==
  LET at == {i \in 1..Len(locals.authors) : locals.authors[i] = a /\ i + 1 <= Len(resp)}
  IN  IF at = {} THEN <<>>
      ELSE resp[(CHOOSE i \in at : TRUE) + 1].res.aggregations.agg1.buckets

(* the doc_count reported for partner b in a's on_author ranking *)
Directed(a, b) ==
  LET buckets == RankingOf(a)
  IN  Sum([i \in 1..Len(buckets) |->
             IF buckets[i].key = b THEN buckets[i].doc_count ELSE 0])

(* C6: the result of peers_exchange_strength holds no pair of equal members,
   holds each unordered pair at most once, under its lexicographically sorted
   key, and weighs a pair by the sum of the doc_counts reported for each
   member in the other's on_author ranking *)
C6_PairsSymmetric ==
  (Done("peers_exchange_strength") /\ outcome = "returned") =>
    \A i \in 1..Len(result) :
      LET a == result[i][1][1]
          b == result[i][1][2]
      IN  /\ a # b
          /\ StrLess(a, b)
          /\ \A j \in 1..Len(result) :
               (j # i) => /\ result[j][1] # <<a, b>>
                          /\ result[j][1] # <<b, a>>
          /\ result[i][2] = Directed(a, b) + Directed(b, a)

(* a pair whose weight merges the counts reported in both directions *)
C6_BothDirectionsSummed ==
  /\ Done("peers_exchange_strength")
  /\ outcome = "returned"
  /\ \E i \in 1..Len(result) :
       /\ Directed(result[i][1][1], result[i][1][2]) > 0
       /\ Directed(result[i][1][2], result[i][1][1]) > 0
       /\ result[i][2] = Directed(result[i][1][1], result[i][1][2])
                         + Directed(result[i][1][2], result[i][1][1])

(* the count the i-th answer reports *)
Counted(i) == resp[i].res["count"].v

AllAnswered == \A i \in 1..Len(resp) : resp[i].ok

(* C7: with 100 created, 40 merged and 10 abandoned changes,
   changes_closed_ratios returns merged/created_ratio = 40.0 and an
   abandoned/created_ratio other than 25.0 *)
C7_AbandonedOverCreated ==
  (/\ Done("changes_closed_ratios")
   /\ AllAnswered
   /\ Counted(1) = 100 /\ Counted(2) = 40 /\ Counted(3) = 10) =>
    /\ outcome = "returned"
    /\ result["merged/created_ratio"].tenths = 400
    /\ result["abandoned/created_ratio"].tenths # 250

FirstEventFunctions == {"first_comment_on_changes", "first_review_on_changes"}

(* the events scanned for the change pr *)
EventsOf(pr) ==
  {resp[1].res[i] : i \in {j \in 1..Len(resp[1].res) :
                             resp[1].res[j].repository_fullname_and_number = pr}}

(* an earliest event of the change pr *)
Earliest(pr) ==
  CHOOSE e \in EventsOf(pr) :
    \A f \in EventsOf(pr) : strptime(e.created_at).v <= strptime(f.created_at).v

(* seconds from the creation of the change to the event e *)
Elapsed(e) == strptime(e.created_at).v - strptime(e.on_created_at).v

(* C8: over a non-empty scan whose events all precede the present, each change
   is credited to an author of its earliest event, its elapsed time is that
   event's whole seconds since the change's creation, days included, and
   first_event_delay_avg is the truncated mean of these elapsed times *)
C8_FirstEventDelay ==
  (/\ pc = "done" /\ fn \in FirstEventFunctions
   /\ resp[1].ok /\ Len(resp[1].res) > 0
   /\ \A i \in 1..Len(resp[1].res) : strptime(resp[1].res[i].created_at).v < locals.now.v) =>
    /\ outcome = "returned"
    /\ \A i \in 1..Len(locals.groups) :
         LET g == locals.groups[i]
         IN  /\ g.data.delta.v = Elapsed(Earliest(g.pr))
             /\ \E e \in EventsOf(g.pr) :
                  /\ Elapsed(e) = Elapsed(Earliest(g.pr))
                  /\ e.author = g.data.first_event_author
    /\ result.first_event_delay_avg =
         Sum([i \in 1..Len(locals.groups) |-> Elapsed(Earliest(locals.groups[i].pr))])
           \div Len(locals.groups)

StateForcing == {"change_merged_count_by_duration", "pr_merged_avg_duration"}

(* C9: a state the caller supplies to a function that does not force the
   state is an exact-match state predicate of every filter the function issues *)
C9_StateSurvives ==
  (/\ pc = "done" /\ fn \in MetricFunctions \ StateForcing
   /\ "state" \in DOMAIN params) =>
    \A i \in 1..Len(sent) :
      \E j \in 1..Len(FilterSent(i)) :
        FilterSent(i)[j] = [term |-> [state |-> params["state"]]]

(* C10: when every backend call succeeds, changes_closed_ratios over no
   created or no merged change, and the first-event functions over an empty
   scan, return a value *)
C10_ZeroGuarded ==
  (/\ pc = "done"
   /\ \/ /\ fn = "changes_closed_ratios"
         /\ AllAnswered
         /\ Counted(1) = 0 \/ Counted(2) = 0
      \/ /\ fn \in FirstEventFunctions
         /\ AllAnswered
         /\ Len(resp[1].res) = 0) =>
    outcome = "returned"

====
